---------------------------- MODULE Spec2Model ----------------------------
(***************************************************************************)
(* Door-frame mass-flow analysis (calculation_massflow.py and the driver   *)
(* main_doorframe.py).                                                     *)
(*                                                                         *)
(* A pandas DataFrame is a function from column keys to columns; a column  *)
(* is a tuple with one number per row.  Python floats are modelled as      *)
(* exact rationals [n, d] in lowest terms, with NaN as the extra value     *)
(* [n |-> 0, d |-> 0]; only the square root is rounded (downwards, to      *)
(* 1/SqrtPrecision of its argument's denominator).                         *)
(***************************************************************************)
EXTENDS Integers, Sequences, FiniteSets, TLC

VARIABLES pc, experiments, idx, df, df1, temperature_ambient, area_args,
          areas, pickled, err

vars == <<pc, experiments, idx, df, df1, temperature_ambient, area_args,
          areas, pickled, err>>

(***************************************************************************)
(* Numbers                                                                 *)
(***************************************************************************)
NaN == [n |-> 0, d |-> 0]

IsNaN(x) == x.d = 0

Abs(i) == IF i < 0 THEN -i ELSE i

RECURSIVE GCD(_, _)
GCD(a, b) == IF b = 0 THEN a ELSE GCD(b, a % b)

\* the rational num/den in lowest terms with a positive denominator;
\* x/0 is NaN (0/0, the mean of no values, is the only such case the
\* inputs produce)
Rat(num, den) ==
    IF den = 0 THEN NaN
    ELSE LET s == IF den < 0 THEN -1 ELSE 1
             g == GCD(Abs(num), Abs(den))
         IN  [n |-> (s * num) \div g, d |-> (s * den) \div g]

Int2R(i) == [n |-> i, d |-> 1]

Zero == Int2R(0)

RAdd(x, y) ==
    IF IsNaN(x) \/ IsNaN(y) THEN NaN
    ELSE LET g == GCD(x.d, y.d)
         IN  Rat(x.n * (y.d \div g) + y.n * (x.d \div g), (x.d \div g) * y.d)

RNeg(x) == IF IsNaN(x) THEN NaN ELSE [n |-> -x.n, d |-> x.d]

RSub(x, y) == RAdd(x, RNeg(y))

RMul(x, y) ==
    IF IsNaN(x) \/ IsNaN(y) THEN NaN
    ELSE LET g1 == GCD(Abs(x.n), y.d)
             g2 == GCD(Abs(y.n), x.d)
         IN  Rat((x.n \div g1) * (y.n \div g2), (x.d \div g2) * (y.d \div g1))

RDiv(x, y) ==
    IF IsNaN(x) \/ IsNaN(y) THEN NaN
    ELSE IF y.n = 0 THEN NaN
    ELSE RMul(x, Rat(y.d, y.n))

RAbs(x) == IF IsNaN(x) THEN NaN ELSE [n |-> Abs(x.n), d |-> x.d]

\* comparisons with NaN are False, as in IEEE arithmetic
RGt0(x) == (~IsNaN(x)) /\ x.n > 0

RLt0(x) == (~IsNaN(x)) /\ x.n < 0

\* -1, 0 or 1; 2 for NaN
Sign(x) == IF IsNaN(x) THEN 2 ELSE IF x.n > 0 THEN 1 ELSE IF x.n < 0 THEN -1 ELSE 0

SqrtPrecision == 100

RECURSIVE ISqrtIn(_, _, _)
ISqrtIn(k, lo, hi) ==
    IF lo >= hi THEN lo
    ELSE LET mid == (lo + hi + 1) \div 2
         IN  IF mid * mid <= k THEN ISqrtIn(k, mid, hi) ELSE ISqrtIn(k, lo, mid - 1)

\* floor of the square root of k >= 0
ISqrt(k) == ISqrtIn(k, 0, IF k < 46340 THEN k ELSE 46340)

IsSquare(k) == ISqrt(k) * ISqrt(k) = k

\* np.sqrt: exact on squares of rationals, otherwise rounded down to a
\* multiple of 1/(d * SqrtPrecision); NaN for NaN and for negative arguments
RSqrt(x) ==
    IF IsNaN(x) \/ x.n < 0 THEN NaN
    ELSE IF IsSquare(x.n) /\ IsSquare(x.d) THEN Rat(ISqrt(x.n), ISqrt(x.d))
    ELSE Rat(ISqrt(x.n * x.d * SqrtPrecision * SqrtPrecision), x.d * SqrtPrecision)

RECURSIVE RSum(_)
RSum(s) == IF s = <<>> THEN Zero ELSE RAdd(Head(s), RSum(Tail(s)))

\* pandas' mean: NaN entries are skipped, the mean of nothing is NaN
Mean(s) ==
    LET vals == SelectSeq(s, LAMBDA x : ~IsNaN(x))
    IN  RDiv(RSum(vals), Int2R(Len(vals)))


(***************************************************************************)
(* Tables                                                                  *)
(***************************************************************************)
NRows == 2

Rows == 1..NRows

\* list(range(20,200,20))
HeightSeq == <<20, 40, 60, 80, 100, 120, 140, 160, 180>>

Heights == {HeightSeq[k] : k \in 1..Len(HeightSeq)}

\* the probes the code names: PP01..PP13
Probes == 1..13

\* probe identifiers outside the two transducer lists
UnknownProbes == {14}

omega == 1..6

gems == (7..9) \cup (10..13)

\* column names: <<family, number, suffix>>, e.g. PP02_DeltaP_smooth is
\* <<"PP", 2, "_DeltaP_smooth">> and TDD.40 is <<"TDD.", 40, "">>
TimeCol == <<"Time [min]", 0, "">>

TDD(h) == <<"TDD.", h, "">>

PPraw(p) == <<"PP", p, "">>

PPzeroed(p) == <<"PP", p, "_zeroed">>

PPDeltaP(p) == <<"PP", p, "_DeltaP">>

PPsmooth(p) == <<"PP", p, "_DeltaP_smooth">>

PPh(h) == <<"PP_", h, "">>

TC(h) == <<"TC_", h, "">>

Rho(h) == <<"Rho_", h, "">>

V(h) == <<"V_", h, "">>

M(h) == <<"M_", h, "">>

MassIn == <<"mass_in", 0, "">>

MassOut == <<"mass_out", 0, "">>

\* the substring tests the code dispatches on
HasTDD(c) == c[1] = "TDD."

HasPP(c) == c[1] \in {"PP", "PP_"}

HasZeroed(c) == c[3] = "_zeroed"

HasDeltaP(c) == c[3] \in {"_DeltaP", "_DeltaP_smooth"}

HasSmooth(c) == c[3] = "_DeltaP_smooth"

HasTC(c) == c[1] = "TC_"

HasM(c) == c[1] = "M_"

Columns(d) == DOMAIN d

NoTable == [c \in {} |-> <<>>]

\* df[col] = values (a new column, or an existing one overwritten)
SetCol(d, c, vals) == [k \in DOMAIN d \cup {c} |-> IF k = c THEN vals ELSE d[k]]

DropCols(d, cs) == [k \in DOMAIN d \ cs |-> d[k]]

Const(x) == [r \in Rows |-> x]

(***************************************************************************)
(* calculation_area                                                        *)
(***************************************************************************)
\* one area too many
calculation_area_off_by_one(number_of_heights, delta_height, door_width) ==
    [k \in 1..(number_of_heights + 1) |-> RMul(delta_height, door_width)]

calculation_area(number_of_heights, delta_height, door_width) ==
    [k \in 1..number_of_heights |-> RMul(delta_height, door_width)]

\* the defaults of calculation_area's parameters
DefaultAreaArgs ==
    [number_of_heights |-> 9, delta_height |-> Rat(2, 10), door_width |-> Rat(8, 10)]

(***************************************************************************)
(* calculation_velocity, stage by stage                                    *)
(***************************************************************************)
gamma == Rat(94, 100)

omega_factor == Rat(249, 100)

gems_factor == Int2R(10)

\* mask_prestart: the rows with Time [min] < 0
MaskPrestart(d) == {r \in Rows : RLt0(d[TimeCol][r])}

\* the values of a column on a set of rows, in row order
Masked(col, mask) ==
    LET F[r \in 0..NRows] ==
            IF r = 0 THEN <<>>
            ELSE IF r \in mask THEN Append(F[r - 1], col[r]) ELSE F[r - 1]
    IN  F[NRows]

\* the columns of a table satisfying a name test, as a sequence
RECURSIVE SetToSeq(_)
SetToSeq(S) ==
    IF S = {} THEN <<>>
    ELSE LET x == CHOOSE y \in S : TRUE
         IN  <<x>> \o SetToSeq(S \ {x})

\* df.loc[mask_prestart, temperature_columns].mean().mean()
TemperatureAmbient(d) ==
    LET temperature_columns == {c \in Columns(d) : HasTDD(c)}
        colMeans == [c \in temperature_columns |-> Mean(Masked(d[c], MaskPrestart(d)))]
        cs == SetToSeq(temperature_columns)
    IN  Mean([k \in 1..Len(cs) |-> colMeans[cs[k]]])

\* the mean taken over every row instead of the baseline rows
PressurePrestartMeanAllRows(d, c) == Mean(d[c])

\* df.loc[mask_prestart, pressure_columns].mean(), one value per column
PressurePrestartMean(d, c) == Mean(Masked(d[c], MaskPrestart(d)))

\* lines 63-69: df["TDD.20"] = temperature_ambient
WithAmbient(d) == SetCol(d, TDD(20), Const(TemperatureAmbient(d)))

\* lines 71-79: a _zeroed column for every column whose name holds "PP"
WithZeroed(d) ==
    [k \in Columns(d) \cup {<<c[1], c[2], "_zeroed">> : c \in {x \in Columns(d) : HasPP(x)}} |->
        IF HasZeroed(k)
        THEN [r \in Rows |-> RSub(d[<<k[1], k[2], "">>][r],
                                  PressurePrestartMean(d, <<k[1], k[2], "">>))]
        ELSE d[k]]

\* every probe that is not an omega probe calibrated as a gems probe
WithDeltaPAnyProbe(d) ==
    [k \in Columns(d) \cup {PPDeltaP(c[2]) : c \in {x \in Columns(d) : HasZeroed(x)}} |->
        IF HasDeltaP(k)
        THEN [r \in Rows |-> RMul(d[PPzeroed(k[2])][r],
                                  IF k[2] \in omega THEN omega_factor ELSE gems_factor)]
        ELSE d[k]]

\* lines 81-94: a _DeltaP column for the zeroed columns of omega and gems
\* probes; any other probe gets none
WithDeltaP(d) ==
    [k \in Columns(d) \cup
           {PPDeltaP(c[2]) : c \in {x \in Columns(d) : HasZeroed(x) /\ x[2] \in omega \cup gems}} |->
        IF HasDeltaP(k)
        THEN [r \in Rows |-> RMul(d[PPzeroed(k[2])][r],
                                  IF k[2] \in omega THEN omega_factor ELSE gems_factor)]
        ELSE d[k]]

\* The values a smoothed pressure difference takes in the model
SmoothVals == {Int2R(-2), Int2R(2)}

IsConstant(col) == \A r \in Rows : col[r] = col[1]

AllNaN(col) == \A r \in Rows : IsNaN(col[r])

\* statsmodels' lowess(endog, exog, frac, return_sorted = False) is library
\* code: one fitted value per row, in the rows' own order.  The rows of the
\* model stand for rows of a long record, so the fit at a row is not
\* determined by the modelled rows: any value of SmoothVals may come out
\* (the series `any`).  Two cases are fixed by local regression itself: a
\* constant series is fitted by itself, and with every value missing there
\* is nothing to fit.
Fitted(col, any) ==
    IF AllNaN(col) THEN Const(NaN)
    ELSE IF IsConstant(col) THEN col
    ELSE any

Lowess(col) == {Fitted(col, any) : any \in [Rows -> SmoothVals]}

\* lines 96-101: the possible results of smoothing every DeltaP column, as
\* functions from those columns to fitted series
SmoothChoices(d) ==
    {[c \in {x \in Columns(d) : HasDeltaP(x)} |->
         Fitted(d[c], IF c \in DOMAIN f THEN f[c] ELSE d[c])] :
        f \in [{x \in Columns(d) : HasDeltaP(x) /\ Cardinality(Lowess(d[x])) > 1} ->
                  [Rows -> SmoothVals]]}

\* with no valid point at all the library call may also fail
LowessMayRaise(d) == \E c \in Columns(d) : HasDeltaP(c) /\ AllNaN(d[c])

WithSmooth(d, fit) ==
    [k \in Columns(d) \cup {PPsmooth(c[2]) : c \in DOMAIN fit} |->
        IF HasSmooth(k) THEN fit[PPDeltaP(k[2])] ELSE d[k]]

\* the probes that share a height (lines 111-112) and the renaming of the
\* others (lines 118-121)
ProbesAt(h) ==
    CASE h = 20 -> {1}
      [] h = 40 -> {2, 3, 4}
      [] h = 60 -> {5}
      [] h = 80 -> {6}
      [] h = 100 -> {7}
      [] h = 120 -> {8}
      [] h = 140 -> {9}
      [] h = 160 -> {10, 11, 12}
      [] h = 180 -> {13}

HeightOf(p) == CHOOSE h \in Heights : p \in ProbesAt(h)

Averaged == {2, 3, 4, 10, 11, 12}

\* line 111/112/114 look up six columns by name
KeyErrorInCollapse(d) == \E p \in Averaged : PPsmooth(p) \notin Columns(d)

RowMean(d, ps, r) == Mean([k \in 1..Len(ps) |-> d[PPsmooth(ps[k])][r]])

\* lines 103-121: drop the raw, zeroed and DeltaP columns, average the probes
\* that share a height, rename the rest to their height
Collapse(d) ==
    [k \in {c \in Columns(d) : ~HasPP(c)}
           \cup {PPh(HeightOf(c[2])) :
                    c \in {x \in Columns(d) : HasSmooth(x) /\ x[2] \notin Averaged}}
           \cup {PPh(40), PPh(160)} |->
        IF k[1] # "PP_" THEN d[k]
        ELSE IF k[2] = 40 THEN [r \in Rows |-> RowMean(d, <<2, 3, 4>>, r)]
        ELSE IF k[2] = 160 THEN [r \in Rows |-> RowMean(d, <<10, 11, 12>>, r)]
        ELSE d[PPsmooth(CHOOSE p \in ProbesAt(k[2]) : TRUE)]]

\* line 128 reads TDD.<height> of every PP column, line 132 drops all nine
KeyErrorInTemperature(d) == \E h \in Heights : TDD(h) \notin Columns(d)

\* the ambient temperature taken at a pressure difference of 0 as well
EffectiveTemperatureGe(d, h, ambient) ==
    [r \in Rows |-> IF RGt0(d[PPh(h)][r]) \/ Sign(d[PPh(h)][r]) = 0
                    THEN ambient ELSE d[TDD(h)][r]]

\* lines 123-129, one height: the measured temperature, replaced by the
\* ambient one where the pressure difference is > 0
EffectiveTemperature(d, h, ambient) ==
    [r \in Rows |-> IF RGt0(d[PPh(h)][r]) THEN ambient ELSE d[TDD(h)][r]]

\* lines 123-132
WithTemperature(d, ambient) ==
    [k \in (Columns(d) \ {TDD(h) : h \in Heights})
           \cup {TC(c[2]) : c \in {x \in Columns(d) : HasPP(x)}} |->
        IF HasTC(k) THEN EffectiveTemperature(d, k[2], ambient) ELSE d[k]]

\* line 138
Density(tc) == RDiv(Int2R(353), RAdd(tc, Int2R(273)))

\* lines 134-138
WithDensity(d) ==
    [k \in Columns(d) \cup {Rho(c[2]) : c \in {x \in Columns(d) : HasTC(x)}} |->
        IF k[1] = "Rho_" THEN [r \in Rows |-> Density(d[TC(k[2])][r])] ELSE d[k]]

\* the magnitude alone, the sign never put back
VelocityUnsigned(pp, rho) == RMul(gamma, RSqrt(RDiv(RMul(Int2R(2), RAbs(pp)), rho)))

\* lines 142-147, one value: the magnitude, then the sign of the pressure
\* difference where that is < 0
Velocity(pp, rho) ==
    LET v == RMul(gamma, RSqrt(RDiv(RMul(Int2R(2), RAbs(pp)), rho)))
    IN  IF RLt0(pp) THEN RMul(v, Int2R(-1)) ELSE v

KeyErrorInVelocity(d) ==
    \E h \in Heights : PPh(h) \notin Columns(d) \/ Rho(h) \notin Columns(d)

\* lines 140-147
WithVelocity(d) ==
    [k \in Columns(d) \cup {V(h) : h \in Heights} |->
        IF k[1] = "V_" THEN [r \in Rows |-> Velocity(d[PPh(k[2])][r], d[Rho(k[2])][r])]
        ELSE d[k]]

(***************************************************************************)
(* calculation_massflow                                                    *)
(***************************************************************************)
Cd == Rat(68, 100)

\* line 173, one value
MassFlowRate(rho, v, area) == RMul(RMul(RMul(Cd, rho), v), area)

\* enumerate(list(range(20,200,20))): the position of a height, from 1
HeightIndex(h) == CHOOSE k \in 1..Len(HeightSeq) : HeightSeq[k] = h

\* nothing written unless the list reaches every height
RatesWrittenAllOrNothing(d, ar) ==
    IF Len(ar) < Len(HeightSeq) THEN d
    ELSE [k \in Columns(d) \cup {M(h) : h \in Heights} |->
             IF HasM(k)
             THEN [r \in Rows |->
                      MassFlowRate(d[Rho(k[2])][r], d[V(k[2])][r], ar[HeightIndex(k[2])])]
             ELSE d[k]]

\* lines 172-173: areas[i] fails with IndexError at the first height the
\* list does not reach; the columns of the heights before it are written
RatesWritten(d, ar) ==
    [k \in Columns(d) \cup {M(h) : h \in {x \in Heights : HeightIndex(x) <= Len(ar)}} |->
        IF HasM(k) /\ HeightIndex(k[2]) <= Len(ar)
        THEN [r \in Rows |->
                 MassFlowRate(d[Rho(k[2])][r], d[V(k[2])][r], ar[HeightIndex(k[2])])]
        ELSE d[k]]

\* lines 175-178: the M_ columns, in column order (the order of creation)
MassColumns(d) == SelectSeq([k \in 1..Len(HeightSeq) |-> M(HeightSeq[k])],
                            LAMBDA c : c \in Columns(d))

\* lines 182-190: the loop over one row's items, positives being the
\* accumulator of line 187
RECURSIVE Positives(_, _)
Positives(items, positives) ==
    IF items = <<>> THEN positives
    ELSE Positives(Tail(items),
                   IF RGt0(Head(items)) THEN RAdd(positives, Head(items)) ELSE positives)

\* negatives += np.abs(item)
RECURSIVE NegativesSummed(_, _)
NegativesSummed(items, negatives) ==
    IF items = <<>> THEN negatives
    ELSE NegativesSummed(Tail(items),
                         IF RGt0(Head(items)) THEN negatives
                         ELSE RAdd(negatives, RAbs(Head(items))))

\* lines 182-191: the same loop, negatives being the variable line 189
\* assigns (negatives =+ np.abs(item) is negatives = +np.abs(item))
RECURSIVE Negatives(_, _)
Negatives(items, negatives) ==
    IF items = <<>> THEN negatives
    ELSE Negatives(Tail(items),
                   IF RGt0(Head(items)) THEN negatives ELSE RAbs(Head(items)))

\* one row of the M_ columns, as iterrows yields it
RowItems(d, cols, r) == [k \in 1..Len(cols) |-> d[cols[k]][r]]

\* lines 180-191
WithTotals(d) ==
    [k \in Columns(d) \cup {MassIn, MassOut} |->
        IF k = MassIn THEN [r \in Rows |-> Positives(RowItems(d, MassColumns(d), r), Zero)]
        ELSE IF k = MassOut
             THEN [r \in Rows |-> Negatives(RowItems(d, MassColumns(d), r), Zero)]
        ELSE d[k]]

(***************************************************************************)
(* Input tables                                                            *)
(***************************************************************************)
\* at most MaxLive probes, all at one height, carry a signal; the others
\* read a constant
MaxLive == 2

Tamb == Int2R(80)

Thot == Int2R(1139)

LiveSets ==
    {L \in SUBSET Probes :
        /\ Cardinality(L) <= MaxLive
        /\ \A p, q \in L : HeightOf(p) = HeightOf(q)}

Signal(shape) ==
    CASE shape = "quiet" -> [r \in Rows |-> Int2R(1)]
      [] shape = "rising" -> [r \in Rows |-> Int2R(r)]
      [] shape = "falling" -> [r \in Rows |-> Int2R(NRows + 1 - r)]

\* a sheet with nb baseline rows (Time [min] < 0) before the test rows,
\* temperatures TDD.40..TDD.180 (ambient in the baseline rows, hot after
\* them) and pressures PP01..PP13
RawTable(nb, shape) ==
    [c \in {TimeCol} \cup {TDD(h) : h \in Heights \ {20}} \cup {PPraw(p) : p \in Probes} |->
        IF c = TimeCol THEN [r \in Rows |-> Int2R(r - nb - 1)]
        ELSE IF HasTDD(c) THEN [r \in Rows |-> IF r <= nb THEN Tamb ELSE Thot]
        ELSE Signal(shape[c[2]])]

Shapes ==
    UNION {{[p \in Probes |-> IF p \in L THEN f[p] ELSE "quiet"] :
               f \in [L -> {"rising", "falling"}]} : L \in LiveSets}

Quiet == [p \in Probes |-> "quiet"]

RegularTables == {RawTable(nb, shape) : nb \in 0..NRows, shape \in Shapes}

\* sheets with a pressure column of an unknown probe
UnknownProbeTables ==
    {SetCol(RawTable(nb, Quiet), PPraw(p), Signal("rising")) :
        nb \in 0..NRows, p \in UnknownProbes}

\* sheets that lack a column the code looks up by name
MissingColumnTables ==
    {DropCols(RawTable(nb, Quiet), {c}) :
        nb \in 0..NRows, c \in {TimeCol, TDD(40), PPraw(1), PPraw(2)}}

\* the raw tables calculation_velocity is checked on
InputTables == RegularTables \cup UnknownProbeTables \cup MissingColumnTables

\* the sheets of the workbook the driver reads: those with a signal in at
\* most one probe, and the malformed ones
SheetTables ==
    {t \in InputTables :
        Cardinality({c \in Columns(t) : HasPP(c) /\ ~IsConstant(t[c])}) <= 1}

\* the tables calculation_velocity hands on: per height a smoothed pressure
\* difference of sign pat[h] in the first row and of the opposite sign in
\* the rows after it, measured temperatures that are hot from 120 cm up, and
\* the temperature, density and velocity columns calculation_velocity
\* derives from them
CollapsedTable(pat) ==
    [c \in {TimeCol} \cup {TDD(h) : h \in Heights} \cup {PPh(h) : h \in Heights} |->
        IF c = TimeCol THEN [r \in Rows |-> Int2R(r - 1)]
        ELSE IF HasTDD(c) THEN [r \in Rows |-> IF c[2] >= 120 THEN Thot ELSE Tamb]
        ELSE [r \in Rows |-> Int2R(IF r = 1 THEN 2 * pat[c[2]] ELSE -2 * pat[c[2]])]]

VelocityTable(pat) == WithVelocity(WithDensity(WithTemperature(CollapsedTable(pat), Tamb)))

\* area lists shorter than, as long as and longer than the list of heights
AreaLengths == {0, 8, 9, 10}

MaxHeights == 9

AreaArgSets ==
    [number_of_heights : 0..MaxHeights,
     delta_height : {Rat(1, 10), Rat(2, 10), Rat(3, 10), Rat(1, 2)},
     door_width : {Rat(8, 10), Rat(9, 10), Int2R(1), Rat(12, 10)}]

(***************************************************************************)
(* The driver, main_doorframe.py, and the three calls it makes             *)
(***************************************************************************)
\* line 9 and line 10: the list of line 9 is replaced by the one of line 10,
\* the selection the author edits between runs
ExperimentLists == {<<"Alpha2", "Beta2", "Gamma">>, <<"Gamma">>}

Init ==
    /\ pc = "for"
    /\ experiments \in ExperimentLists
    /\ idx = 1
    /\ df = NoTable
    /\ df1 = NoTable
    /\ temperature_ambient = NaN
    /\ area_args = DefaultAreaArgs
    /\ areas = <<>>
    /\ pickled = <<>>
    /\ err = ""

\* line 11: the next experiment of the list, or the end of the script
For ==
    /\ pc = "for"
    /\ pc' = IF idx <= Len(experiments) THEN "read_excel" ELSE "exit"
    /\ UNCHANGED <<experiments, idx, df, df1, temperature_ambient, area_args,
                   areas, pickled, err>>

\* line 12: the sheet of the experiment
ReadExcel ==
    /\ pc = "read_excel"
    /\ \E t \in SheetTables : df' = t
    /\ pc' = "calculation_area"
    /\ UNCHANGED <<experiments, idx, df1, temperature_ambient, area_args,
                   areas, pickled, err>>

\* line 15, and calculation_area as a whole
CalculationArea ==
    /\ pc = "calculation_area"
    /\ areas' = calculation_area(area_args.number_of_heights, area_args.delta_height,
                                 area_args.door_width)
    /\ pc' = "calculation_velocity"
    /\ UNCHANGED <<experiments, idx, df, df1, temperature_ambient, area_args,
                   pickled, err>>

\* an exception nothing catches ends the script
Raise(kind) == pc' = "raised" /\ err' = kind

\* the call of line 18, calculation_velocity, lines 60-94: the baseline
\* mask, the ambient temperature, the zeroed and the calibrated columns,
\* all written into df itself
CalculationVelocity ==
    /\ pc = "calculation_velocity"
    /\ IF TimeCol \notin Columns(df)
       THEN /\ Raise("KeyError")
            /\ UNCHANGED <<df, temperature_ambient>>
       ELSE /\ temperature_ambient' = TemperatureAmbient(df)
            /\ df' = WithDeltaP(WithZeroed(WithAmbient(df)))
            /\ pc' = "lowess"
            /\ UNCHANGED err
    /\ UNCHANGED <<experiments, idx, df1, area_args, areas, pickled>>

\* lines 96-101: the smoothed columns, written into df
Smooth ==
    /\ pc = "lowess"
    /\ \/ /\ LowessMayRaise(df)
          /\ Raise("ValueError")
          /\ UNCHANGED df
       \/ /\ \E fit \in SmoothChoices(df) : df' = WithSmooth(df, fit)
          /\ pc' = "derive"
          /\ UNCHANGED err
    /\ UNCHANGED <<experiments, idx, df1, temperature_ambient, area_args, areas, pickled>>

\* lines 103-149: df1, the table calculation_velocity returns
Derive ==
    /\ pc = "derive"
    /\ IF KeyErrorInCollapse(df) \/ KeyErrorInTemperature(Collapse(df))
       THEN Raise("KeyError") /\ UNCHANGED df1
       ELSE LET t == WithDensity(WithTemperature(Collapse(df), temperature_ambient))
            IN  IF KeyErrorInVelocity(t)
                THEN Raise("KeyError") /\ UNCHANGED df1
                ELSE /\ df1' = WithVelocity(t)
                     /\ pc' = "assign_velocity"
                     /\ UNCHANGED err
    /\ UNCHANGED <<experiments, idx, df, temperature_ambient, area_args, areas, pickled>>

\* line 18, the assignment: df = <the table returned>
AssignVelocity ==
    /\ pc = "assign_velocity"
    /\ df' = df1
    /\ df1' = NoTable
    /\ pc' = "calculation_massflow"
    /\ UNCHANGED <<experiments, idx, temperature_ambient, area_args, areas, pickled, err>>

\* line 21, calculation_massflow as a whole
CalculationMassflow ==
    /\ pc = "calculation_massflow"
    /\ IF Len(areas) < Len(HeightSeq)
       THEN /\ df' = RatesWritten(df, areas)
            /\ Raise("IndexError")
       ELSE /\ df' = WithTotals(RatesWritten(df, areas))
            /\ pc' = "to_pickle"
            /\ UNCHANGED err
    /\ UNCHANGED <<experiments, idx, df1, temperature_ambient, area_args, areas, pickled>>

\* the loop going on without the artifact being written
ToPickleNothing ==
    /\ pc = "to_pickle"
    /\ idx' = idx + 1
    /\ df' = NoTable
    /\ areas' = <<>>
    /\ temperature_ambient' = NaN
    /\ pc' = "for"
    /\ UNCHANGED <<experiments, df1, area_args, err, pickled>>

\* line 26, and the end of the loop body.  The table, the areas and the
\* ambient temperature are dead from here on (line 12 and line 15 assign
\* them anew before any use), so the model forgets them.
ToPickle ==
    /\ pc = "to_pickle"
    /\ pickled' = Append(pickled, experiments[idx])
    /\ idx' = idx + 1
    /\ df' = NoTable
    /\ areas' = <<>>
    /\ temperature_ambient' = NaN
    /\ pc' = "for"
    /\ UNCHANGED <<experiments, df1, area_args, err>>

Next ==
    \/ For
    \/ ReadExcel
    \/ CalculationArea
    \/ CalculationVelocity
    \/ Smooth
    \/ Derive
    \/ AssignVelocity
    \/ CalculationMassflow
    \/ ToPickle

Spec == Init /\ [][Next]_vars

\* calculation_area called on its own, with arguments drawn from AreaArgSets
InitArea ==
    /\ pc = "calculation_area"
    /\ experiments = <<>>
    /\ idx = 1
    /\ df = NoTable
    /\ df1 = NoTable
    /\ temperature_ambient = NaN
    /\ area_args \in AreaArgSets
    /\ areas = <<>>
    /\ pickled = <<>>
    /\ err = ""

NextArea == CalculationArea

SpecArea == InitArea /\ [][NextArea]_vars

\* calculation_velocity called on its own, on the tables of InputTables
InitVelocity ==
    /\ pc = "calculation_velocity"
    /\ experiments = <<>>
    /\ idx = 1
    /\ df \in InputTables
    /\ df1 = NoTable
    /\ temperature_ambient = NaN
    /\ area_args = DefaultAreaArgs
    /\ areas = <<>>
    /\ pickled = <<>>
    /\ err = ""

NextVelocity == CalculationVelocity \/ Smooth \/ Derive

SpecVelocity == InitVelocity /\ [][NextVelocity]_vars

\* calculation_massflow called on its own, on the tables calculation_velocity
\* can return and the area list calculation_area returns by default
InitMassflow ==
    /\ pc = "calculation_massflow"
    /\ experiments = <<>>
    /\ idx = 1
    /\ \E pat \in [Heights -> {-1, 0, 1}] : df = VelocityTable(pat)
    /\ df1 = NoTable
    /\ temperature_ambient = Tamb
    /\ area_args = DefaultAreaArgs
    /\ areas = calculation_area(DefaultAreaArgs.number_of_heights,
                                DefaultAreaArgs.delta_height, DefaultAreaArgs.door_width)
    /\ pickled = <<>>
    /\ err = ""

\* calculation_massflow called with area lists of several lengths
InitAreaList ==
    /\ pc = "calculation_massflow"
    /\ experiments = <<>>
    /\ idx = 1
    /\ \E pat \in [Heights -> {-1, 1}] : df = VelocityTable(pat)
    /\ df1 = NoTable
    /\ temperature_ambient = Tamb
    /\ area_args = DefaultAreaArgs
    /\ \E n \in AreaLengths :
         areas = calculation_area(n, DefaultAreaArgs.delta_height, DefaultAreaArgs.door_width)
    /\ pickled = <<>>
    /\ err = ""

SpecAreaList == InitAreaList /\ [][CalculationMassflow]_vars

NextMassflow == CalculationMassflow

SpecMassflow == InitMassflow /\ [][NextMassflow]_vars

(***************************************************************************)
(* Properties of calculation_massflow                                      *)
(***************************************************************************)
\* the table calculation_massflow has finished
MassflowDone == pc = "to_pickle" /\ MassIn \in Columns(df) /\ MassOut \in Columns(df)

\* the rates of one row, in height order
RowRates(r) == [k \in 1..Len(HeightSeq) |-> df[M(HeightSeq[k])][r]]

\* the positions of a row whose rate is below 0, and those whose rate is
\* not above 0
NegativeAt(r) == {k \in 1..Len(HeightSeq) : RowRates(r)[k].n < 0}

NonPositiveAt(r) == {k \in 1..Len(HeightSeq) : RowRates(r)[k].n <= 0}

Last(S) == CHOOSE k \in S : \A j \in S : j <= k

\* sums taken apart from the loop of lines 182-190
RECURSIVE SumTo(_, _)
SumTo(rates, k) == IF k = 0 THEN Zero ELSE RAdd(SumTo(rates, k - 1), rates[k])

SumAll(rates) == SumTo(rates, Len(rates))

SumPositive(rates) ==
    SumAll([k \in 1..Len(rates) |-> IF rates[k].n > 0 THEN rates[k] ELSE Zero])

SumNegative(rates) ==
    SumAll([k \in 1..Len(rates) |-> IF rates[k].n < 0 THEN rates[k] ELSE Zero])

\* C1: in every row of the table calculation_massflow returns, mass_in >= 0,
\* mass_out >= 0, and mass_in - mass_out is the sum of the row's M_h.
C1_MassSplit ==
    MassflowDone =>
        \A r \in Rows :
            /\ df[MassIn][r].n >= 0
            /\ df[MassOut][r].n >= 0
            /\ RSub(df[MassIn][r], df[MassOut][r]) = SumAll(RowRates(r))

\* C2: in every row, mass_out is the sum of the absolute values of all the
\* row's negative M_h and mass_in the sum of its positive M_h; a row of
\* rates that are all 0 has both at 0.
C2_SumOfNegatives ==
    MassflowDone =>
        \A r \in Rows :
            /\ df[MassOut][r] = RNeg(SumNegative(RowRates(r)))
            /\ df[MassIn][r] = SumPositive(RowRates(r))
            /\ (\A k \in 1..Len(HeightSeq) : RowRates(r)[k] = Zero) =>
                   df[MassIn][r] = Zero /\ df[MassOut][r] = Zero

\* C10, as stated: in every row, mass_out is the absolute value of the last
\* negative M_h in height order, whatever zero or positive rates come after
\* it (and 0 in a row without a negative rate).
C10_LastNegative ==
    MassflowDone =>
        \A r \in Rows :
            df[MassOut][r] = IF NegativeAt(r) = {} THEN Zero
                             ELSE RAbs(RowRates(r)[Last(NegativeAt(r))])

\* C10, as the code has it: in every row, mass_out is the absolute value of
\* the last M_h in height order that is not above 0 (and 0 in a row whose
\* rates are all above 0): positive rates after it leave it, a rate of 0
\* after it puts it back to 0.  mass_in is the sum of the positive M_h.
C10_LastNonPositive ==
    MassflowDone =>
        \A r \in Rows :
            /\ df[MassOut][r] = IF NonPositiveAt(r) = {} THEN Zero
                                ELSE RAbs(RowRates(r)[Last(NonPositiveAt(r))])
            /\ df[MassIn][r] = SumPositive(RowRates(r))

\* a row with a negative rate, then a rate of 0, and after it positive
\* rates only: mass_out is 0
C10_Witness ==
    /\ MassflowDone
    /\ \E r \in Rows :
         /\ NegativeAt(r) # {}
         /\ NonPositiveAt(r) # NegativeAt(r)
         /\ Last(NonPositiveAt(r)) > Last(NegativeAt(r))
         /\ Last(NonPositiveAt(r)) < Len(HeightSeq)
         /\ df[MassOut][r] = Zero

\* the call of calculation_massflow is over, one way or the other
MassflowOver == pc \in {"to_pickle", "raised"}

\* the heights whose rate column the table carries
RatedHeights == {h \in Heights : M(h) \in Columns(df)}

\* C5, as stated: for an area list of any length other than nine, shorter or
\* longer, calculation_massflow fails with a ConfigurationError and writes
\* no M_h, mass_in or mass_out into the table.
C5_LengthChecked ==
    (MassflowOver /\ Len(areas) # Len(HeightSeq)) =>
        /\ pc = "raised"
        /\ err = "ConfigurationError"
        /\ RatedHeights = {}
        /\ MassIn \notin Columns(df)
        /\ MassOut \notin Columns(df)

\* C5, as the code has it: the length is never compared.  With a list
\* shorter than nine the call ends in an IndexError at the first height the
\* list does not reach, having written M_h = Cd * Rho_h * V_h * areas[i] for
\* the heights before it and neither mass_in nor mass_out; with nine areas
\* or more it returns, all nine M_h written from the first nine areas and
\* mass_in and mass_out with them.
C5_LengthUnchecked ==
    MassflowOver =>
        /\ RatedHeights = {h \in Heights : HeightIndex(h) <= Len(areas)}
        /\ \A h \in RatedHeights : \A r \in Rows :
             df[M(h)][r] = RMul(RMul(Cd, RMul(df[Rho(h)][r], df[V(h)][r])),
                                areas[HeightIndex(h)])
        /\ IF Len(areas) < Len(HeightSeq)
           THEN /\ pc = "raised"
                /\ err = "IndexError"
                /\ MassIn \notin Columns(df)
                /\ MassOut \notin Columns(df)
           ELSE /\ pc = "to_pickle"
                /\ err = ""
                /\ MassIn \in Columns(df)
                /\ MassOut \in Columns(df)

\* eight areas: the rates of the first eight heights are in the table when
\* the IndexError is raised
C5_Witness ==
    /\ pc = "raised"
    /\ err = "IndexError"
    /\ Len(areas) = Len(HeightSeq) - 1
    /\ M(160) \in Columns(df)
    /\ M(180) \notin Columns(df)
    /\ \E r \in Rows : df[M(160)][r].n # 0

(***************************************************************************)
(* Properties of calculation_area                                          *)
(***************************************************************************)
\* the product of two fractions, by cross-multiplication
IsProduct(z, x, y) == z.d # 0 /\ z.n * (x.d * y.d) = (x.n * y.n) * z.d

\* C8: calculation_area returns a list of number_of_heights areas, each of
\* them delta_height * door_width; with the defaults (9, 0.2, 0.8) that is
\* nine areas of 0.16.
C8_Areas ==
    pc = "calculation_velocity" =>
        /\ Len(areas) = area_args.number_of_heights
        /\ \A k \in 1..Len(areas) :
             IsProduct(areas[k], area_args.delta_height, area_args.door_width)
        /\ area_args = DefaultAreaArgs =>
             /\ Len(areas) = 9
             /\ \A k \in 1..9 : areas[k].n * 100 = 16 * areas[k].d

\* the call with the defaults has returned its nine areas
C8_Witness ==
    /\ pc = "calculation_velocity"
    /\ area_args = DefaultAreaArgs
    /\ Len(areas) = 9
    /\ areas[9] = [n |-> 4, d |-> 25]

(***************************************************************************)
(* Properties of calculation_velocity                                      *)
(***************************************************************************)
\* calculation_velocity has returned: df is the raw table with the columns
\* written into it, df1 the table returned
VelocityReturned == pc = "assign_velocity"

\* the baseline rows of the raw table
BaselineRows == {r \in Rows : df[TimeCol][r].d # 0 /\ df[TimeCol][r].n < 0}

\* the probes whose raw column the table carries
RawProbes == {c[2] : c \in {x \in Columns(df) : x[1] = "PP" /\ x[3] = ""}}

RECURSIVE SumOver(_, _)
SumOver(col, S) ==
    IF S = {} THEN Zero
    ELSE LET r == CHOOSE x \in S : TRUE
         IN  RAdd(col[r], SumOver(col, S \ {r}))

\* C3, as stated: in every row of the table returned, the sign of V_h is the
\* sign of the calibrated pressure difference of the probe(s) at height h,
\* or both are 0, the heights 40 and 160 included.
C3_SignOfCalibrated ==
    VelocityReturned =>
        \A h \in Heights : \A p \in ProbesAt(h) : \A r \in Rows :
            Sign(df1[V(h)][r]) = Sign(df[PPDeltaP(p)][r])

\* C3, as the code has it: in every row of the table returned, the sign of
\* V_h is the sign of PP_h, or both are 0, where PP_h is the smoothed
\* pressure difference of the probe at height h and, at the heights 40 and
\* 160, the mean of the smoothed pressure differences of the three probes
\* there; a negative PP_h gives a negative V_h.
C3_SignOfSmoothed ==
    VelocityReturned =>
        \A h \in Heights : \A r \in Rows :
            /\ Sign(df1[V(h)][r]) = Sign(df1[PPh(h)][r])
            /\ RMul(Int2R(Cardinality(ProbesAt(h))), df1[PPh(h)][r])
                 = SumOver([p \in ProbesAt(h) |-> df[PPsmooth(p)][r]], ProbesAt(h))

\* at height 40 a velocity below 0 in a row where the calibrated pressure
\* difference of probe PP02 is above 0
C3_Witness ==
    /\ VelocityReturned
    /\ \E r \in Rows :
         /\ df1[V(40)][r].n < 0
         /\ df1[PPh(40)][r].n < 0
         /\ df[PPDeltaP(2)][r].n > 0

\* C4, as stated: TC_h is the ambient temperature where PP_h >= 0, a PP_h of
\* exactly 0 included, and TDD.h of the row otherwise.
C4_AmbientAtZero ==
    VelocityReturned =>
        \A h \in Heights : \A r \in Rows :
            df1[TC(h)][r] =
                IF df1[PPh(h)][r].d # 0 /\ df1[PPh(h)][r].n >= 0
                THEN temperature_ambient ELSE df[TDD(h)][r]

\* C4, as the code has it: TC_h is the ambient temperature where PP_h > 0,
\* and TDD.h of the row otherwise, a PP_h of exactly 0 included.
C4_AmbientAboveZero ==
    VelocityReturned =>
        \A h \in Heights : \A r \in Rows :
            df1[TC(h)][r] =
                IF df1[PPh(h)][r].d # 0 /\ df1[PPh(h)][r].n > 0
                THEN temperature_ambient ELSE df[TDD(h)][r]

\* a row with PP_h = 0 at a height whose measured temperature is not the
\* ambient one: TC_h is the measured temperature
C4_Witness ==
    /\ VelocityReturned
    /\ \E h \in Heights : \E r \in Rows :
         /\ df1[PPh(h)][r] = Zero
         /\ df[TDD(h)][r] # temperature_ambient
         /\ df1[TC(h)][r] = df[TDD(h)][r]
    /\ \E h \in Heights : \E r \in Rows :
         /\ df1[PPh(h)][r].n > 0
         /\ df[TDD(h)][r] # temperature_ambient
         /\ df1[TC(h)][r] = temperature_ambient

\* C9: with baseline rows in the table, the zeroed reading of every pressure
\* probe is the raw reading minus one value per probe, the mean of the
\* probe's raw readings over the baseline rows, so that the zeroed readings
\* of the baseline rows add up to 0.
C9_Zeroing ==
    (pc \in {"lowess", "derive", "assign_velocity"} /\ BaselineRows # {}) =>
        \A p \in RawProbes :
            /\ PPzeroed(p) \in Columns(df)
            /\ \A r \in Rows :
                 RMul(Int2R(Cardinality(BaselineRows)),
                      RSub(df[PPraw(p)][r], df[PPzeroed(p)][r]))
                   = SumOver(df[PPraw(p)], BaselineRows)
            /\ SumOver(df[PPzeroed(p)], BaselineRows) = Zero

\* a probe whose readings change from the baseline rows to the test rows:
\* its zeroed reading is not 0 in a test row
C9_Witness ==
    /\ pc = "lowess"
    /\ BaselineRows # {}
    /\ \E p \in RawProbes : \E r \in Rows \ BaselineRows :
         /\ PPzeroed(p) \in Columns(df)
         /\ df[PPzeroed(p)][r].n # 0

\* the raw table has its time column and no row before the start
NoBaseline == TimeCol \in Columns(df) /\ BaselineRows = {}

\* the raw table has a pressure column of a probe of neither family
UnknownProbesRead == RawProbes \ (omega \cup gems)

\* the raw table lacks a column the code looks up by name
RequiredMissing ==
    \E c \in {TimeCol} \cup {TDD(h) : h \in Heights \ {20}} \cup {PPraw(p) : p \in Probes} :
        c \notin Columns(df)

\* the raw, zeroed, calibrated and smoothed columns are all in the table
Smoothed == pc \in {"derive", "assign_velocity"}

\* C6, as stated: on a raw table without a baseline row calculation_velocity
\* fails with a DataFormatError instead of returning a table, and on one
\* with a pressure column of an unknown probe it fails with a
\* ConfigurationError instead of skipping the probe.
C6_Rejected ==
    /\ VelocityReturned => ~NoBaseline /\ UnknownProbesRead = {}
    /\ (pc = "raised" /\ NoBaseline) => err = "DataFormatError"
    /\ (pc = "raised" /\ UnknownProbesRead # {}) => err = "ConfigurationError"

\* C6, as the code has it: calculation_velocity checks neither.  Without a
\* baseline row the ambient temperature and every zeroed and calibrated
\* reading are NaN, the only errors that can follow are one the smoothing
\* library raises and the KeyError of a missing column, and a table that is
\* returned has NaN in every PP_h and V_h.  A pressure column of an unknown probe is zeroed but gets no
\* calibrated and no smoothed column, no error is raised on its account, and
\* the table is returned with the known probes' heights only.
C6_Unchecked ==
    /\ err \in {"", "KeyError", "ValueError"}
    /\ (NoBaseline /\ pc \in {"lowess", "derive", "assign_velocity"}) =>
          /\ IsNaN(temperature_ambient)
          /\ \A p \in RawProbes : \A r \in Rows :
               /\ IsNaN(df[PPzeroed(p)][r])
               /\ PPDeltaP(p) \in Columns(df) => IsNaN(df[PPDeltaP(p)][r])
    /\ (NoBaseline /\ pc = "raised") =>
          \/ err = "ValueError"
          \/ err = "KeyError" /\ RequiredMissing
    /\ (NoBaseline /\ VelocityReturned) =>
          \A h \in Heights : \A r \in Rows :
              IsNaN(df1[PPh(h)][r]) /\ IsNaN(df1[V(h)][r])
    /\ (UnknownProbesRead # {} /\ pc \in {"lowess", "derive", "assign_velocity"}) =>
          \A p \in UnknownProbesRead :
              /\ PPzeroed(p) \in Columns(df)
              /\ PPDeltaP(p) \notin Columns(df)
              /\ Smoothed => PPsmooth(p) \notin Columns(df)
    /\ (UnknownProbesRead # {} /\ pc = "raised") => NoBaseline /\ err = "ValueError"
    /\ (UnknownProbesRead # {} /\ VelocityReturned) =>
          {c \in Columns(df1) : c[1] = "V_"} = {V(h) : h \in Heights}

\* a table with baseline rows and a column of an unknown probe whose
\* readings change: a velocity table is returned
C6_Witness ==
    /\ VelocityReturned
    /\ ~NoBaseline
    /\ \E p \in UnknownProbesRead :
         /\ \E r \in Rows : df[PPzeroed(p)][r].n # 0
         /\ PPDeltaP(p) \notin Columns(df)
    /\ \A h \in Heights : \A r \in Rows : ~IsNaN(df1[V(h)][r])

(***************************************************************************)
(* Properties of the driver                                                *)
(***************************************************************************)
\* the script has ended, by the end of the list or by an error
Ended == pc \in {"exit", "raised"}

\* the experiments of the list after the one being processed
Later == {experiments[k] : k \in (idx + 1)..Len(experiments)}

Persisted == {pickled[k] : k \in 1..Len(pickled)}

=============================================================================
